---- MODULE Spec2Model ----
(***************************************************************************)
(* State-machine model of elflink.c (libhugetlbfs): the startup constructor *)
(* setup_elflink, the shared-file protocol find_or_prepare_shared_file, the *)
(* unlinked-file fallback, remap_segments and the unmapped-safe abort path. *)
(* Several processes run the constructor concurrently; the only state they  *)
(* share is the share directory (dir) and the files in it (content).        *)
(***************************************************************************)
EXTENDS Integers, Sequences, FiniteSets, TLC

\* ---------------------------------------------------------------- bounds
NumProcs == 2          \* processes racing through setup_elflink
MaxFaults == 2         \* environment faults (failed syscalls, crashes) per run

\* ------------------------------------------------------ program constants
MAX_HTLB_SEGS == 2

Procs == 1..NumProcs

\* ------------------------------------------------ executables (ELF images)
\* Two different binaries with the same basename, run by the same user.
Exes == { [path |-> << "a", "prog" >>, bits |-> 64],
          [path |-> << "b", "prog" >>, bits |-> 64] }

\* basename(): the last component of the path read from /proc/self/exe
Basename(e) == e.path[Len(e.path)]
\* sizeof(unsigned long) * 8 of the build the process runs
WordBits(e) == e.bits

\* Program headers of an executable; p_flags uses PF_R, PF_W, PF_X and
\* PF_LINUX_HUGETLB ("H").  C indexes headers from 0: header k of the
\* sequence is phdr[k-1].
Phdrs(e) ==
  IF e.path[1] = "a"
  THEN << [p_type |-> "PT_PHDR",    p_flags |-> {"R"},           p_vaddr |-> 0],
          [p_type |-> "PT_LOAD",    p_flags |-> {"R", "X", "H"}, p_vaddr |-> 1],
          [p_type |-> "PT_LOAD",    p_flags |-> {"R", "W", "H"}, p_vaddr |-> 2],
          [p_type |-> "PT_DYNAMIC", p_flags |-> {"R", "W"},      p_vaddr |-> 3] >>
  ELSE << [p_type |-> "PT_PHDR",    p_flags |-> {"R"},           p_vaddr |-> 0],
          [p_type |-> "PT_LOAD",    p_flags |-> {"R", "X", "H"}, p_vaddr |-> 1],
          [p_type |-> "PT_LOAD",    p_flags |-> {"R", "W"},      p_vaddr |-> 2] >>

\* prot bits derived from the load flags (parse_elf, lines 522-527)
ProtOfFlags(flags) ==
  {"PROT_READ" : x \in flags \cap {"R"}} \cup
  {"PROT_WRITE" : x \in flags \cap {"W"}} \cup
  {"PROT_EXEC" : x \in flags \cap {"X"}}

\* parse_elf: walk the headers, record each PT_LOAD header flagged for huge
\* pages; a further flagged header once the table is full empties the table.
RECURSIVE ParseFrom(_, _, _)
ParseFrom(phdrs, k, table) ==
  IF k > Len(phdrs) THEN table
  ELSE IF phdrs[k].p_type # "PT_LOAD" THEN ParseFrom(phdrs, k + 1, table)
  ELSE IF "H" \notin phdrs[k].p_flags THEN ParseFrom(phdrs, k + 1, table)
  ELSE IF Len(table) >= MAX_HTLB_SEGS THEN << >>
  ELSE ParseFrom(phdrs, k + 1,
         Append(table, [vaddr |-> phdrs[k].p_vaddr,
                        prot  |-> ProtOfFlags(phdrs[k].p_flags),
                        fd    |-> 0,
                        index |-> k - 1]))

parse_elf(e) == ParseFrom(Phdrs(e), 1, << >>)

\* The bytes a process has at a segment before the remap: those of its own
\* image.  "full" content of a file is tagged with the image it was copied from.
Image(e, index) == << "full", e, index >>

\* ------------------------------------------------------------ file system
\* get_shared_file_name: share_path/<basename>_<word bits>_<phdr index>
get_shared_file_name(e, index) ==
  [base |-> Basename(e), bits |-> WordBits(e), idx |-> index, tmp |-> FALSE]

\* Variant: the exclusive create is made on the final name itself
TmpPath_IsFinal(final) == final

\* tmp_path is final_path with ".tmp" appended (line 648)
TmpPath(final) == [final EXCEPT !.tmp = TRUE]

FinalNames == UNION { { get_shared_file_name(e, parse_elf(e)[k].index) :
                          k \in 1..Len(parse_elf(e)) } : e \in Exes }
AllNames == FinalNames \cup { TmpPath(n) : n \in FinalNames }

\* A file (inode) is identified by who created it, for which table entry,
\* and how: "tmp" by the exclusive create, "unl" by hugetlbfs_unlinked_fd.
NoFile == << >>
Inodes == { << p, k, kind >> : p \in Procs, k \in 1..MAX_HTLB_SEGS,
                               kind \in {"tmp", "unl"} }
Tty == << "tty" >>

\* open() returns the lowest descriptor number not in use
LowestFree(tab) ==
  CHOOSE n \in 0..Cardinality(DOMAIN tab) :
     /\ n \notin DOMAIN tab
     /\ \A m \in 0..(n - 1) : m \in DOMAIN tab

FdOpen(tab, fd, file) == (fd :> file) @@ tab
FdClose(tab, fd) == [x \in (DOMAIN tab) \ {fd} |-> tab[x]]

\* ---------------------------------------------------- one run, in detail
\* The remaining definitions follow one constructor run through check_env,
\* parse_elf with get_extracopy, find_or_create_share_path and
\* prepare_segment, with sizes, addresses and bytes.  Addresses and sizes are
\* small naturals; address 0 is the null pointer.

HPAGE_SHIFT == 2       \* log2 of the huge page size
MaxSyms == 2           \* entries of the dynamic symbol table

\* gethugepagesize()
gethugepagesize == 2 ^ HPAGE_SHIFT

\* ALIGN(x, a): x rounded up to a multiple of a
ALIGN(x, a) == ((x + a - 1) \div a) * a

\* sizeof(Elf_Sym), in the address units of the model
SizeofSym == 2

\* the byte the process has in memory at address a
Mem(a) == 1 + (a % 7)

Hdr(t, f, v, fs, ms) ==
  [p_type |-> t, p_flags |-> f, p_vaddr |-> v, p_filesz |-> fs, p_memsz |-> ms]

PhdrHdr == Hdr("PT_PHDR", {"R"}, 0, 1, 1)
TextHdr == Hdr("PT_LOAD", {"R", "X", "H"}, 1, 3, 3)      \* [1, 4), no tail
DataHdr == Hdr("PT_LOAD", {"R", "W", "H"}, 4, 2, 5)      \* file [4, 6), tail [6, 9)
RoHdr == Hdr("PT_LOAD", {"R", "H"}, 12, 2, 2)            \* [12, 14), no tail
MoreHdr == Hdr("PT_LOAD", {"R", "W", "H"}, 16, 1, 1)     \* [16, 17), no tail
PlainHdr == Hdr("PT_LOAD", {"R", "W"}, 4, 2, 5)          \* not flagged
DynHdr == Hdr("PT_DYNAMIC", {"R", "W"}, 20, 1, 1)
NullHdr == Hdr("PT_NULL", {}, 0, 0, 0)

\* ELF images: the program header table (phdr[0..e_phnum-1]) and what is in
\* memory right behind it (phdr[e_phnum], which find_dynamic may read)
Ehdrs ==
  { [phdr |-> << PhdrHdr, TextHdr, DataHdr, DynHdr >>, beyond |-> NullHdr],
    [phdr |-> << PhdrHdr, TextHdr, RoHdr, MoreHdr, DynHdr >>, beyond |-> NullHdr],
    [phdr |-> << TextHdr, RoHdr, MoreHdr, MoreHdr >>, beyond |-> NullHdr],
    [phdr |-> << PhdrHdr, PlainHdr, DynHdr >>, beyond |-> NullHdr],
    [phdr |-> << PhdrHdr, DataHdr >>, beyond |-> NullHdr],
    [phdr |-> << PhdrHdr, DataHdr >>, beyond |-> DynHdr],
    [phdr |-> << DynHdr, DataHdr >>, beyond |-> NullHdr] }

e_phnum(e) == Len(e.phdr)

\* phdr[i] as C reads it: an index past the table reads what lies behind it
PhdrAt(e, i) == IF i < e_phnum(e) THEN e.phdr[i + 1] ELSE e.beyond

\* Dynamic symbols: st_value, st_size, binding and type (from st_info)
Sym(v, sz, b, t) == [st_value |-> v, st_size |-> sz, bind |-> b, type |-> t]

Symbols ==
  { Sym(6, 1, "STB_GLOBAL", "STT_OBJECT"),    \* in the tail
    Sym(7, 1, "STB_WEAK", "STT_OBJECT"),      \* in the tail
    Sym(9, 1, "STB_GLOBAL", "STT_OBJECT"),    \* at vaddr + memsz
    Sym(8, 2, "STB_GLOBAL", "STT_OBJECT"),    \* starts in the tail, ends behind it
    Sym(7, 1, "STB_LOCAL", "STT_OBJECT"),
    Sym(6, 2, "STB_GLOBAL", "STT_FUNC"),
    Sym(7, 0, "STB_GLOBAL", "STT_OBJECT"),
    Sym(5, 1, "STB_GLOBAL", "STT_OBJECT") }   \* below the tail

SymTabs == UNION { [1..n -> Symbols] : n \in 1..MaxSyms }

\* &__libhuge_filesz: 0 when the weak symbol is undefined
Sentinels == {0, 7, 8, 10}

SymtabAddr == 30

Dyn(tag, ptr) == [d_tag |-> tag, d_ptr |-> ptr]

\* The dynamic section: with the tables, with DT_SYMTAB in entry 0, without
\* DT_SYMTAB, without DT_STRTAB; the string table lies dist behind the
\* symbol table
DynTab(shape, dist) ==
  CASE shape = "full"  -> << Dyn("DT_NEEDED", 1), Dyn("DT_SYMTAB", SymtabAddr),
                             Dyn("DT_STRTAB", SymtabAddr + dist), Dyn("DT_NULL", 0) >>
    [] shape = "first" -> << Dyn("DT_SYMTAB", SymtabAddr),
                             Dyn("DT_STRTAB", SymtabAddr + dist), Dyn("DT_NULL", 0) >>
    [] shape = "nosym" -> << Dyn("DT_NEEDED", 1),
                             Dyn("DT_STRTAB", SymtabAddr + dist), Dyn("DT_NULL", 0) >>
    [] shape = "nostr" -> << Dyn("DT_NEEDED", 1),
                             Dyn("DT_SYMTAB", SymtabAddr), Dyn("DT_NULL", 0) >>

\* What get_extracopy reads besides the headers: the dynamic section, the
\* symbols stored at the symbol table's address, and the sentinel.  A symbol
\* table that is never read is left empty.
ExtracopyInputs ==
  { [dyntab |-> DynTab("full", SizeofSym * Len(t)), syms |-> t, sentinel |-> s] :
      t \in SymTabs, s \in Sentinels }
  \cup
  { [dyntab |-> DynTab(sh, d), syms |-> << >>, sentinel |-> s] :
      sh \in {"first", "nosym", "nostr"}, d \in {SizeofSym}, s \in {0, 10} }
  \cup
  { [dyntab |-> DynTab("full", d), syms |-> << >>, sentinel |-> s] :
      d \in {0 - SizeofSym, 0, 1}, s \in Sentinels }

NoInputs == [dyntab |-> << >>, syms |-> << >>, sentinel |-> 0]

\* find_dynamic: the search starts at phdr[1] and tests phdr[i] before i
RECURSIVE FindDynamicFrom(_, _)
FindDynamicFrom(e, i) ==
  IF PhdrAt(e, i).p_type # "PT_DYNAMIC" /\ i < e_phnum(e)
  THEN FindDynamicFrom(e, i + 1)
  ELSE i

find_dynamic(e) ==
  LET i == FindDynamicFrom(e, 1) IN
  IF PhdrAt(e, i).p_type = "PT_DYNAMIC"
  THEN [ret |-> 0, dyntab |-> PhdrAt(e, i).p_vaddr]
  ELSE [ret |-> -1, dyntab |-> 0]

\* find_tables: the scan starts at dyntab[1] and stops at DT_NULL
RECURSIVE FindTablesFrom(_, _, _, _)
FindTablesFrom(dyntab, i, symtab, strtab) ==
  IF dyntab[i + 1].d_tag = "DT_NULL" THEN [symtab |-> symtab, strtab |-> strtab]
  ELSE IF dyntab[i + 1].d_tag = "DT_SYMTAB"
       THEN FindTablesFrom(dyntab, i + 1, dyntab[i + 1].d_ptr, strtab)
  ELSE IF dyntab[i + 1].d_tag = "DT_STRTAB"
       THEN FindTablesFrom(dyntab, i + 1, symtab, dyntab[i + 1].d_ptr)
  ELSE FindTablesFrom(dyntab, i + 1, symtab, strtab)

find_tables(dyntab) ==
  LET r == FindTablesFrom(dyntab, 1, 0, 0) IN
  IF r.symtab = 0 THEN [ret |-> -1, symtab |-> r.symtab, strtab |-> r.strtab]
  ELSE IF r.strtab = 0 THEN [ret |-> -1, symtab |-> r.symtab, strtab |-> r.strtab]
  ELSE [ret |-> 0, symtab |-> r.symtab, strtab |-> r.strtab]

\* find_numsyms: the distance between the tables over the size of a symbol
find_numsyms(symtab, strtab) ==
  IF strtab <= symtab THEN -1 ELSE (strtab - symtab) \div SizeofSym

\* keep_symbol (lines 384-399)
keep_symbol(s, start, end) ==
  IF s.st_value < start THEN FALSE
  ELSE IF s.st_value > end THEN FALSE
  ELSE IF s.bind # "STB_GLOBAL" /\ s.bind # "STB_WEAK" THEN FALSE
  ELSE IF s.type # "STT_OBJECT" THEN FALSE
  ELSE IF s.st_size = 0 THEN FALSE
  ELSE TRUE

\* The loop of lines 447-461 over symtab[k..numsyms-1]
RECURSIVE ScanSymbols(_, _, _, _, _, _)
ScanSymbols(syms, k, numsyms, start_orig, end_orig, w) ==
  IF k >= numsyms THEN w
  ELSE IF ~keep_symbol(syms[k + 1], start_orig, end_orig)
       THEN ScanSymbols(syms, k + 1, numsyms, start_orig, end_orig, w)
  ELSE LET sym_start == syms[k + 1].st_value
           sym_end == syms[k + 1].st_value + syms[k + 1].st_size
       IN ScanSymbols(syms, k + 1, numsyms, start_orig, end_orig,
            [start |-> IF sym_start < w.start THEN sym_start ELSE w.start,
             end |-> IF sym_end > w.end THEN sym_end ELSE w.end,
             found_sym |-> 1])

\* Variant: the symbols are consulted whatever the mode
WantsMinimalCopy_Always(mc) == TRUE

\* "if (!minimal_copy) goto bail2" (line 423)
WantsMinimalCopy(mc) == mc # 0

\* get_extracopy(seg, phdr, phnum), lines 408-491: seg with its copy window
get_extracopy(seg, e, mc, in) ==
  LET end_orig == seg.vaddr + seg.memsz
      start_orig == seg.vaddr + seg.filesz
      whole == [seg EXCEPT !.extra_vaddr = start_orig,
                           !.extrasz = end_orig - start_orig]
      tabs == find_tables(in.dyntab)
      numsyms == find_numsyms(tabs.symtab, tabs.strtab)
      w == ScanSymbols(in.syms, 0, numsyms, start_orig, end_orig,
                       [start |-> end_orig, end |-> start_orig, found_sym |-> 0])
      start == IF in.sentinel > w.end /\ w.start = end_orig
               THEN start_orig ELSE w.start
      end == IF in.sentinel > w.end THEN in.sentinel ELSE w.end
  IN
  IF seg.filesz = seg.memsz THEN seg
  ELSE IF ~WantsMinimalCopy(mc) THEN whole
  ELSE IF find_dynamic(e).ret < 0 THEN whole
  ELSE IF tabs.ret < 0 THEN whole
  ELSE IF numsyms < 0 THEN whole
  ELSE IF w.found_sym # 0
       THEN [seg EXCEPT !.extra_vaddr = start, !.extrasz = end - start]
  ELSE seg

\* Does get_extracopy read the dynamic data for this segment
ReadsDynamic(h, e, mc) ==
  /\ h.p_filesz # h.p_memsz
  /\ WantsMinimalCopy(mc)
  /\ find_dynamic(e).ret = 0

\* ------------------------------------------------------------------ check_env
\* An environment variable: unset (getenv returns NULL) or a string, kept as
\* its sequence of characters
EnvUnset == [set |-> FALSE, val |-> << >>]
EnvVal(chars) == [set |-> TRUE, val |-> chars]

\* tolower() on the letters used here
ToLower(c) ==
  CASE c = "N" -> "n" [] c = "O" -> "o" [] c = "Y" -> "y"
    [] c = "E" -> "e" [] c = "S" -> "s" [] OTHER -> c

\* strcasecmp(a, b) == 0
StrCaseEq(a, b) ==
  /\ Len(a) = Len(b)
  /\ \A k \in 1..Len(a) : ToLower(a[k]) = ToLower(b[k])

\* The values given to HUGETLB_ELFMAP and HUGETLB_MINIMAL_COPY
NoYesEnvs ==
  { EnvUnset, EnvVal(<< "n", "o" >>), EnvVal(<< "N", "o" >>),
    EnvVal(<< "y", "e", "s" >>), EnvVal(<< "n" >>) }

\* check_env, lines 809-814 and 816-821: does it return -1
check_env_disabled(env) ==
  \/ env.HUGETLB_ELFMAP.set /\ StrCaseEq(env.HUGETLB_ELFMAP.val, << "n", "o" >>)
  \/ env.LD_PRELOAD_libhugetlbfs

\* check_env, lines 823-828: minimal_copy afterwards (it starts as 1)
check_env_minimal_copy(env) ==
  IF env.HUGETLB_MINIMAL_COPY.set
     /\ StrCaseEq(env.HUGETLB_MINIMAL_COPY.val, << "n", "o" >>)
  THEN 0 ELSE 1

Environs ==
  { [HUGETLB_ELFMAP |-> m, LD_PRELOAD_libhugetlbfs |-> l,
     HUGETLB_MINIMAL_COPY |-> c, HUGETLB_SHARE |-> sh] :
      m \in {EnvUnset, EnvVal(<< "N", "O" >>)}, l \in BOOLEAN,
      c \in NoYesEnvs, sh \in 0..2 }

NoEnviron ==
  [HUGETLB_ELFMAP |-> EnvUnset, LD_PRELOAD_libhugetlbfs |-> FALSE,
   HUGETLB_MINIMAL_COPY |-> EnvUnset, HUGETLB_SHARE |-> 0]

\* --------------------------------------------------- find_or_create_share_path
Me == 1000             \* getuid()

\* A path as stat sees it: what it is, its owner, whether group or others may
\* write to it, and whether it lies on a hugetlbfs mount
Node(kind, uid, gow, huge) == [kind |-> kind, st_uid |-> uid, gow |-> gow, huge |-> huge]
NoNode == Node("none", 0, FALSE, FALSE)

\* What the run finds: HUGETLB_SHARE_PATH (unset, or naming a directory),
\* the default path elflink-uid-<uid> under the hugetlbfs mount as it is
\* before mkdir, and whether mkdir or lstat fail for another reason
ShareWorlds ==
  { [env_set |-> TRUE, env_dir |-> Node("dir", u, w, h), def |-> NoNode,
     mkdir_err |-> FALSE, lstat_err |-> FALSE] :
       u \in {Me, 0, 1001}, w \in BOOLEAN, h \in BOOLEAN }
  \cup
  { [env_set |-> FALSE, env_dir |-> NoNode, def |-> d,
     mkdir_err |-> m, lstat_err |-> l] :
       d \in {NoNode} \cup { Node(k, u, w, TRUE) : k \in {"dir", "file", "symlink"},
                                                  u \in {Me, 1001}, w \in BOOLEAN },
       m \in BOOLEAN, l \in BOOLEAN }

\* hugetlbfs_test_path(path): 0 for a path on hugetlbfs, as line 217 reads it
hugetlbfs_test_path(node) == IF node.huge THEN 0 ELSE 1

\* mkdir(share_path, 0700): what is at the path afterwards, and the result
mkdir(w) ==
  IF w.mkdir_err THEN [ret |-> -1, errno |-> "EACCES", node |-> w.def]
  ELSE IF w.def.kind # "none" THEN [ret |-> -1, errno |-> "EEXIST", node |-> w.def]
  ELSE [ret |-> 0, errno |-> "none", node |-> Node("dir", Me, FALSE, TRUE)]

\* find_or_create_share_path (lines 208-260): its result and the directory
\* that share_path then names
find_or_create_share_path(w) ==
  IF w.env_set
  THEN IF hugetlbfs_test_path(w.env_dir) # 0
       THEN [ret |-> -1, dir |-> NoNode, from |-> "env"]
       ELSE [ret |-> 0, dir |-> w.env_dir, from |-> "env"]
  ELSE LET made == mkdir(w) IN
       IF made.ret # 0 /\ made.errno # "EEXIST"
         THEN [ret |-> -1, dir |-> made.node, from |-> "default"]
       ELSE IF w.lstat_err THEN [ret |-> -1, dir |-> made.node, from |-> "default"]
       ELSE IF made.node.kind # "dir" THEN [ret |-> -1, dir |-> made.node, from |-> "default"]
       ELSE IF made.node.st_uid # Me THEN [ret |-> -1, dir |-> made.node, from |-> "default"]
       ELSE IF made.node.gow THEN [ret |-> -1, dir |-> made.node, from |-> "default"]
       ELSE [ret |-> 0, dir |-> made.node, from |-> "default"]

NoSharePath == [ret |-> 0, dir |-> NoNode, from |-> "unset"]

\* ------------------------------------------------------------ prepare_segment
\* Variant: the copy window is written right behind the file part
WindowOffset_NoGap(seg) == seg.filesz

\* p + seg->filesz + gap, with gap = extra_vaddr - (vaddr + filesz)
WindowOffset(seg) == seg.filesz + (seg.extra_vaddr - (seg.vaddr + seg.filesz))

\* The size prepare_segment maps and fills (lines 561-567)
PopulatedSize(seg) ==
  IF seg.extra_vaddr # 0
  THEN ALIGN(seg.extra_vaddr + seg.extrasz - seg.vaddr, gethugepagesize)
  ELSE ALIGN(seg.filesz, gethugepagesize)

\* memcpy(dst + off, src, n) on a file image
MemcpyToFile(bytes, off, src, n) ==
  [o \in DOMAIN bytes |-> IF o >= off /\ o < off + n THEN Mem(src + (o - off))
                          ELSE bytes[o]]

\* prepare_segment on a fresh file (lines 571-601): the bytes of the file
\* over the populated size afterwards; a mapping of size 0 fails
prepare_segment_file(seg) ==
  LET size == PopulatedSize(seg)
      fresh == [o \in 0..(size - 1) |-> 0]
      first == MemcpyToFile(fresh, 0, seg.vaddr, seg.filesz)
  IN IF size = 0 THEN [ret |-> -1, bytes |-> << >>]
     ELSE IF seg.extra_vaddr # 0
          THEN [ret |-> 0,
                bytes |-> MemcpyToFile(first, WindowOffset(seg), seg.extra_vaddr,
                                       seg.extrasz)]
     ELSE [ret |-> 0, bytes |-> first]

VARIABLES
  pc,        \* control position of each process
  exe,       \* the executable each process runs (/proc/self/exe)
  sharing,   \* static int sharing
  segs,      \* htlb_seg_table[0..htlb_num_segs-1]
  cur,       \* loop variable i of setup_elflink / remap_segments (1-based)
  fdx, fds,  \* locals of find_or_prepare_shared_file
  errnox, errnos,
  fdt,       \* descriptor table of each process: fd -> file
  maps,      \* address space at each segment's vaddr
  calls,     \* the calls remap_segments has made, in order
  okSegs,    \* table entries for which obtain_prepared_file returned 0
  dir,       \* share directory: name -> file
  content,   \* file -> content
  renamed,   \* files that a rename() has published under a final name
  nfaults, fkinds,  \* environment faults injected so far, and their kinds
  \* --- one constructor run looked at in detail (parse_elf, get_extracopy,
  \* --- find_or_create_share_path, prepare_segment)
  upc,             \* control position of that run
  ehdr,            \* the ELF image it parses (program headers, dynamic data)
  environ,         \* the environment variables check_env has read
  minimal_copy,    \* static int minimal_copy
  htlb_num_segs,   \* static int htlb_num_segs
  htlb_seg_table,  \* static struct seg_info htlb_seg_table[MAX_HTLB_SEGS]
  phi,             \* loop variable i of parse_elf
  wrote,           \* the indexes of htlb_seg_table that have been written
  gx,              \* what the last call of get_extracopy was given
  share_path,      \* static char share_path[], and what that directory is
  hfile            \* the bytes of the file prepare_segment has filled, per entry

unitVars == << upc, ehdr, environ, minimal_copy, htlb_num_segs, htlb_seg_table,
              phi, wrote, gx, share_path, hfile >>

vars == << pc, exe, sharing, segs, cur, fdx, fds, errnox, errnos, fdt, maps,
           calls, okSegs, dir, content, renamed, nfaults, fkinds, unitVars >>

procLocals == << fdx, fds, errnox, errnos >>
fsVars == << dir, content, renamed >>
faultVars == << nfaults, fkinds >>

Fault(kind) ==
  /\ nfaults < MaxFaults
  /\ nfaults' = nfaults + 1
  /\ fkinds' = fkinds \cup {kind}

NoFault == UNCHANGED faultVars

\* struct seg_info as the static table holds it before parse_elf
ZeroSeg ==
  [vaddr |-> 0, extra_vaddr |-> 0, filesz |-> 0, memsz |-> 0, extrasz |-> 0,
   prot |-> {}, fd |-> 0, index |-> 0]

NoCall == [called |-> FALSE, idx |-> 0, in |-> NoInputs]

\* The detailed run is not part of the protocol model
UnitIdle ==
  /\ upc = "idle"
  /\ ehdr = [phdr |-> << >>, beyond |-> NullHdr]
  /\ environ = NoEnviron
  /\ minimal_copy = 1
  /\ htlb_num_segs = 0
  /\ htlb_seg_table = [n \in 0..(MAX_HTLB_SEGS - 1) |-> ZeroSeg]
  /\ phi = 0
  /\ wrote = {}
  /\ gx = NoCall
  /\ share_path = NoSharePath
  /\ hfile = << >>

NumSegs(p) == Len(segs[p])
FinalPath(p) == get_shared_file_name(exe[p], segs[p][cur[p]].index)

OrigMaps(e) ==
  [k \in 1..Len(parse_elf(e)) |->
     [st   |-> "orig",
      data |-> Image(e, parse_elf(e)[k].index),
      prot |-> ProtOfFlags(Phdrs(e)[parse_elf(e)[k].index + 1].p_flags)]]

ConfigRank(e, tab) ==
  (IF e.path[1] = "a" THEN 0 ELSE 2) + (IF 0 \in DOMAIN tab THEN 0 ELSE 1)

Init ==
  /\ pc = [p \in Procs |-> "start"]
  /\ exe \in [Procs -> Exes]
  /\ sharing = [p \in Procs |-> 0]
  /\ segs = [p \in Procs |-> << >>]
  /\ cur = [p \in Procs |-> 1]
  /\ fdx = [p \in Procs |-> -1]
  /\ fds = [p \in Procs |-> -1]
  /\ errnox = [p \in Procs |-> "none"]
  /\ errnos = [p \in Procs |-> "none"]
  \* a process may be started with standard input closed
  /\ fdt \in [Procs -> { [fd \in 0..2 |-> Tty], [fd \in 1..2 |-> Tty] }]
  \* process numbers are arbitrary: numbering the processes in the order of
  \* their configurations loses no behaviour
  /\ \A p, q \in Procs : p < q => ConfigRank(exe[p], fdt[p]) <= ConfigRank(exe[q], fdt[q])
  /\ maps = [p \in Procs |-> OrigMaps(exe[p])]
  /\ calls = [p \in Procs |-> << >>]
  /\ okSegs = [p \in Procs |-> {}]
  /\ dir = [n \in AllNames |-> NoFile]
  /\ content = [f \in Inodes |-> << "absent" >>]
  /\ renamed = {}
  /\ nfaults = 0
  /\ fkinds = {}
  /\ UnitIdle

\* ------------------------------------------------------------ setup_elflink
\* check_env, lines 830-846: only HUGETLB_SHARE=1 leaves sharing enabled
check_env_sharing(v) == IF v = 1 THEN 1 ELSE 0

\* Variant: writable segments are shared as well
Shareable_AnyProt(sh, seg) == sh # 0

\* "Share only read-only segments" (line 738)
Shareable(sh, seg) == sh # 0 /\ "PROT_WRITE" \notin seg.prot

\* Variant: the loop of setup_elflink goes on after a failed segment
SetupAfterObtain_IgnoresFailure(ret, i, num) ==
  IF i < num THEN "obtain" ELSE "remap"

\* Where setup_elflink goes once obtain_prepared_file has returned ret for
\* table entry i of num (lines 887-896).
SetupAfterObtain(ret, i, num) ==
  IF ret < 0 THEN "ret"
  ELSE IF i < num THEN "obtain"
  ELSE "remap"

\* obtain_prepared_file returns ret to the loop of setup_elflink
ObtainReturns(p, ret) ==
  /\ pc' = [pc EXCEPT ![p] = SetupAfterObtain(ret, cur[p], NumSegs(p))]
  /\ cur' = [cur EXCEPT ![p] =
               IF SetupAfterObtain(ret, cur[p], NumSegs(p)) = "obtain"
               THEN cur[p] + 1 ELSE cur[p]]
  /\ okSegs' = [okSegs EXCEPT ![p] = IF ret = 0 THEN @ \cup {cur[p]} ELSE @]

\* Variant: setup_elflink goes on to the files without a share directory
SetupAfterSharePath_GoesOn(ret) == "obtain"

\* "ret = find_or_create_share_path(); if (ret != 0) return;" (lines 881-883)
SetupAfterSharePath(ret) == IF ret # 0 THEN "ret" ELSE "obtain"

\* setup_elflink up to its first loop: __executable_start, check_env,
\* parse_elf, htlb_num_segs == 0, and find_or_create_share_path when sharing
\* (lines 859-884).  find_or_create_share_path returns -1 when the directory
\* cannot be created or fails one of its checks (lines 208-260).
SetupStart(p) ==
  LET table == parse_elf(exe[p]) IN
  /\ pc[p] = "start"
  /\ \/ \* no __executable_start, HUGETLB_ELFMAP=no, or LD_PRELOAD names the library
        /\ pc' = [pc EXCEPT ![p] = "ret"]
        /\ UNCHANGED << sharing, segs >>
        /\ NoFault
     \/ \E share \in 0..3 :
        /\ sharing' = [sharing EXCEPT ![p] = check_env_sharing(share)]
        /\ segs' = [segs EXCEPT ![p] = table]
        /\ \/ /\ pc' = [pc EXCEPT ![p] = IF Len(table) = 0 THEN "ret" ELSE "obtain"]
              /\ NoFault
           \/ /\ Len(table) # 0
              /\ check_env_sharing(share) # 0
              /\ pc' = [pc EXCEPT ![p] = SetupAfterSharePath(-1)]  \* no share directory
              /\ Fault("sharepath")
  /\ UNCHANGED << exe, cur, procLocals, fdt, maps, calls, okSegs, fsVars >>
  /\ UNCHANGED unitVars

\* Variant: prepare_segment copies nothing into the file
prepare_segment_Nothing(cont, file, data) == cont

\* prepare_segment on a file: the file receives the bytes the process has
\* at the segment (filesz bytes and the copy window), lines 571-601
prepare_segment(cont, file, data) == [cont EXCEPT ![file] = data]

\* the bytes of table entry k that process p has in memory now
LiveData(p, k) == maps[p][k].data

\* A process that dies: its descriptors are closed and its memory is gone;
\* the files it created in the share directory stay.
Dies(p) ==
  /\ pc' = [pc EXCEPT ![p] = "crashed"]
  /\ fdt' = [fdt EXCEPT ![p] = << >>]
  /\ segs' = [segs EXCEPT ![p] = << >>]
  /\ maps' = [maps EXCEPT ![p] = << >>]
  /\ calls' = [calls EXCEPT ![p] = << >>]
  /\ cur' = [cur EXCEPT ![p] = 1]
  /\ okSegs' = [okSegs EXCEPT ![p] = {}]
  /\ fdx' = [fdx EXCEPT ![p] = -1]
  /\ fds' = [fds EXCEPT ![p] = -1]
  /\ errnox' = [errnox EXCEPT ![p] = "none"]
  /\ errnos' = [errnos EXCEPT ![p] = "none"]

\* ------------------------------------------------------ obtain_prepared_file
\* Entry of obtain_prepared_file for a shareable segment (line 738-740) and
\* of find_or_prepare_shared_file: get_shared_file_name and assemble_path
\* (lines 645-648); readlink may fail, and the function then returns -1.
ObtainShared(p) ==
  /\ pc[p] = "obtain"
  /\ Shareable(sharing[p], segs[p][cur[p]])
  /\ \/ /\ pc' = [pc EXCEPT ![p] = "openx"]
        /\ NoFault
     \/ /\ pc' = [pc EXCEPT ![p] = "unlinked"]
        /\ Fault("names")
  /\ UNCHANGED << exe, sharing, segs, cur, procLocals, fdt, maps, calls, okSegs, fsVars >>
  /\ UNCHANGED unitVars

\* The unlinked-file path of obtain_prepared_file (lines 746-757), taken at
\* once by a segment that is not shared and after a failed attempt to share:
\* fd = hugetlbfs_unlinked_fd(); htlb_seg_info->fd = fd; prepare_segment.
\* prepare_segment fails when its mmap fails; a huge page that cannot be
\* allocated while copying kills the process (SIGBUS).
ObtainUnlinked(p) ==
  LET file == << p, cur[p], "unl" >>
      fd == LowestFree(fdt[p])
  IN
  /\ \/ pc[p] = "unlinked"
     \/ pc[p] = "obtain" /\ ~Shareable(sharing[p], segs[p][cur[p]])
  /\ \/ /\ content' = prepare_segment([content EXCEPT ![file] = << "empty" >>],
                                      file, LiveData(p, cur[p]))
        /\ fdt' = [fdt EXCEPT ![p] = FdOpen(@, fd, file)]
        /\ segs' = [segs EXCEPT ![p][cur[p]].fd = fd]
        /\ ObtainReturns(p, 0)
        /\ UNCHANGED << procLocals, maps, calls >>
        /\ NoFault
     \/ /\ ObtainReturns(p, -1)                       \* no unlinked file
        /\ UNCHANGED << content, fdt, segs, procLocals, maps, calls >>
        /\ Fault("unlinkedfd")
     \/ /\ content' = [content EXCEPT ![file] = << "empty" >>]
        /\ fdt' = [fdt EXCEPT ![p] = FdOpen(@, fd, file)]
        /\ segs' = [segs EXCEPT ![p][cur[p]].fd = fd]
        /\ ObtainReturns(p, -1)                       \* prepare_segment fails
        /\ UNCHANGED << procLocals, maps, calls >>
        /\ Fault("prepare")
     \/ /\ content' = [content EXCEPT ![file] = << "partial" >>]
        /\ Dies(p)
        /\ Fault("crash")
  /\ UNCHANGED << exe, sharing, dir, renamed >>
  /\ UNCHANGED unitVars

\* ---------------------------------------------- find_or_prepare_shared_file
\* fdx = open(tmp_path, O_CREAT | O_EXCL | O_RDWR); errnox = errno
OpenExclusive(p) ==
  LET tmp == TmpPath(FinalPath(p))
      file == << p, cur[p], "tmp" >>
      fd == LowestFree(fdt[p])
  IN
  /\ pc[p] = "openx"
  /\ pc' = [pc EXCEPT ![p] = "opens"]
  /\ \/ /\ dir[tmp] = NoFile
        /\ dir' = [dir EXCEPT ![tmp] = file]
        /\ content' = [content EXCEPT ![file] = << "empty" >>]
        /\ fdt' = [fdt EXCEPT ![p] = FdOpen(@, fd, file)]
        /\ fdx' = [fdx EXCEPT ![p] = fd]
        /\ UNCHANGED errnox
        /\ NoFault
     \/ /\ dir[tmp] # NoFile
        /\ fdx' = [fdx EXCEPT ![p] = -1]
        /\ errnox' = [errnox EXCEPT ![p] = "EEXIST"]
        /\ UNCHANGED << dir, content, fdt >>
        /\ NoFault
     \/ /\ fdx' = [fdx EXCEPT ![p] = -1]
        /\ errnox' = [errnox EXCEPT ![p] = "EOTHER"]
        /\ UNCHANGED << dir, content, fdt >>
        /\ Fault("openx")
  /\ UNCHANGED << exe, sharing, segs, cur, fds, errnos, maps, calls, okSegs, renamed >>
  /\ UNCHANGED unitVars

\* Variant: a process whose two opens both failed gives up
SharedBranch_GivesUp(x, s, ex, es) ==
  IF s >= 0 THEN "use"
  ELSE IF x >= 0 THEN "prepare"
  ELSE "fail"

\* The branch taken after the two opens (lines 657, 676, 703)
SharedBranch(x, s, ex, es) ==
  IF s >= 0 THEN "use"
  ELSE IF x >= 0 THEN "prepare"
  ELSE "sleep"

\* fds = open(final_path, O_RDONLY); errnos = errno; then the branch
OpenFinal(p) ==
  LET final == FinalPath(p)
      fd == LowestFree(fdt[p])
  IN
  /\ pc[p] = "opens"
  /\ \/ /\ dir[final] # NoFile
        /\ fdt' = [fdt EXCEPT ![p] = FdOpen(@, fd, dir[final])]
        /\ fds' = [fds EXCEPT ![p] = fd]
        /\ UNCHANGED errnos
        /\ NoFault
     \/ /\ dir[final] = NoFile
        /\ fds' = [fds EXCEPT ![p] = -1]
        /\ errnos' = [errnos EXCEPT ![p] = "ENOENT"]
        /\ UNCHANGED fdt
        /\ NoFault
     \/ /\ fds' = [fds EXCEPT ![p] = -1]
        /\ errnos' = [errnos EXCEPT ![p] = "EOTHER"]
        /\ UNCHANGED fdt
        /\ Fault("opens")
  /\ pc' = [pc EXCEPT ![p] = SharedBranch(fdx[p], fds'[p], errnox[p], errnos'[p])]
  /\ UNCHANGED << exe, sharing, segs, cur, fdx, errnox, maps, calls, okSegs, fsVars >>
  /\ UNCHANGED unitVars

\* Does the code remove the temporary file it holds as descriptor x
\* (the tests "fdx > 0" of lines 659 and 710)
CleansTmp(x) == x > 0

\* Locals of find_or_prepare_shared_file are gone once it returns
SharedFileReturns(p) ==
  /\ fdx' = [fdx EXCEPT ![p] = -1]
  /\ fds' = [fds EXCEPT ![p] = -1]
  /\ errnox' = [errnox EXCEPT ![p] = "none"]
  /\ errnos' = [errnos EXCEPT ![p] = "none"]

\* "Got an already-prepared file -> use it", lines 657-674.  The unlink is
\* of a file this process has just created; its result selects a message only.
UseShared(p) ==
  LET tmp == TmpPath(FinalPath(p)) IN
  /\ pc[p] = "use"
  /\ IF CleansTmp(fdx[p])
     THEN /\ dir' = [dir EXCEPT ![tmp] = NoFile]          \* unlink(tmp_path)
          /\ fdt' = [fdt EXCEPT ![p] = FdClose(@, fdx[p])] \* close(fdx)
     ELSE UNCHANGED << dir, fdt >>
  /\ segs' = [segs EXCEPT ![p][cur[p]].fd = fds[p]]
  /\ ObtainReturns(p, 0)
  /\ SharedFileReturns(p)
  /\ UNCHANGED << exe, sharing, maps, calls, content, renamed, faultVars >>
  /\ UNCHANGED unitVars

\* "It's our job to prepare": htlb_seg_info->fd = fdx; prepare_segment
\* (lines 676-688)
PrepareShared(p) ==
  LET file == fdt[p][fdx[p]] IN
  /\ pc[p] = "prepare"
  /\ \/ /\ content' = prepare_segment(content, file, LiveData(p, cur[p]))
        /\ segs' = [segs EXCEPT ![p][cur[p]].fd = fdx[p]]
        /\ pc' = [pc EXCEPT ![p] = "rename"]
        /\ UNCHANGED << procLocals, fdt, cur, maps, calls, okSegs >>
        /\ NoFault
     \/ /\ pc' = [pc EXCEPT ![p] = "fail"]
        /\ segs' = [segs EXCEPT ![p][cur[p]].fd = fdx[p]]
        /\ UNCHANGED << content, procLocals, fdt, cur, maps, calls, okSegs >>
        /\ Fault("prepare")
     \/ /\ content' = [content EXCEPT ![file] = << "partial" >>]
        /\ Dies(p)
        /\ Fault("crash")
  /\ UNCHANGED << exe, sharing, dir, renamed >>
  /\ UNCHANGED unitVars

\* Variant: the rename is given the temporary name as its target
do_rename_SameName(d, from, to) == d

\* rename(from, to) in the share directory: the file leaves its old name
\* and replaces whatever the new name held
do_rename(d, from, to) == [d EXCEPT ![to] = d[from], ![from] = NoFile]

\* "move to permanent location", lines 691-700
RenameShared(p) ==
  LET final == FinalPath(p)
      tmp == TmpPath(final)
  IN
  /\ pc[p] = "rename"
  /\ \/ /\ dir[tmp] # NoFile
        /\ dir' = do_rename(dir, tmp, final)
        /\ renamed' = renamed \cup {dir[tmp]}
        /\ ObtainReturns(p, 0)
        /\ SharedFileReturns(p)
        /\ NoFault
     \/ /\ pc' = [pc EXCEPT ![p] = "fail"]
        /\ UNCHANGED << dir, renamed, cur, okSegs, procLocals >>
        /\ Fault("rename")
  /\ UNCHANGED << exe, sharing, segs, fdt, maps, calls, content >>
  /\ UNCHANGED unitVars

\* the fail: label, lines 709-720; the caller then falls through to the
\* unlinked file (lines 743-746)
FailShared(p) ==
  LET tmp == TmpPath(FinalPath(p)) IN
  /\ pc[p] = "fail"
  /\ IF CleansTmp(fdx[p])
     THEN /\ dir' = [dir EXCEPT ![tmp] = NoFile]          \* unlink(tmp_path)
          /\ fdt' = [fdt EXCEPT ![p] = FdClose(@, fdx[p])] \* close(fdx)
     ELSE UNCHANGED << dir, fdt >>
  /\ pc' = [pc EXCEPT ![p] = "unlinked"]
  /\ SharedFileReturns(p)
  /\ UNCHANGED << exe, sharing, segs, cur, maps, calls, okSegs, content,
                  renamed, faultVars >>
  /\ UNCHANGED unitVars

\* "Both opens failed ... Wait and try again", lines 703-707
SleepRetry(p) ==
  /\ pc[p] = "sleep"
  /\ pc' = [pc EXCEPT ![p] = "openx"]
  /\ UNCHANGED << exe, sharing, segs, cur, procLocals, fdt, maps, calls, okSegs,
                  fsVars, faultVars >>
  /\ UNCHANGED unitVars

\* ------------------------------------------------------------ remap_segments
\* Variant: each entry is remapped right after it is unmapped
RemapOrder_Interleaved(num) ==
  [k \in 1..(2 * num) |->
     IF k % 2 = 1 THEN << "munmap", (k + 1) \div 2 >> ELSE << "mmap", k \div 2 >>]

\* The order in which remap_segments works on the num table entries: the
\* loop of lines 779-780 unmaps them all, then the loop of lines 786-799
\* remaps them one by one.
RemapOrder(num) ==
  [k \in 1..(2 * num) |->
     IF k <= num THEN << "munmap", k >> ELSE << "mmap", k - num >>]

\* unmapped_abort (lines 102-144): the message goes out through write_err,
\* then sys_abort (lines 72-77) sends SIGABRT to the process itself.
UnmappedAbortCalls == << << "write", 2 >>, << "getpid" >>, << "kill", "SIGABRT" >> >>

\* The argument errno of the first unmapped_abort (line 793) is evaluated
\* before the call: with glibc, which the library depends on, errno is a
\* macro that calls __errno_location().
ErrnoCalls == << << "__errno_location" >> >>

\* What sys_abort does to its caller: kill() ends the process when SIGABRT
\* is fatal to it; when the process was started with SIGABRT ignored or
\* blocked, kill() returns and so do sys_abort and unmapped_abort.
sys_abort(fatal) == IF fatal THEN "terminated" ELSE "returned"

\* One table entry remapped: p = mmap(seg[i].vaddr, mapsize, seg[i].prot,
\* MAP_PRIVATE|MAP_FIXED, seg[i].fd, 0) and the two tests on p (lines
\* 787-798).  res is what mmap did: "ok", "failed" (MAP_FAILED) or "wrong"
\* (another address).  MAP_FAILED also differs from seg[i].vaddr, so that a
\* first abort that returns is followed by the second.
RemapOne(st, i, seg, file, cont, res, fatal) ==
  LET called == [st EXCEPT !.calls = Append(@, << "mmap", i >>)] IN
  IF res = "ok"
  THEN [called EXCEPT !.maps[i] = [st |-> "huge", data |-> cont[file],
                                   prot |-> seg.prot]]
  ELSE LET bad == [called EXCEPT !.maps[i].st = res,
                                 !.calls = @ \o (IF res = "failed" THEN ErrnoCalls
                                                 ELSE << >>)
                                             \o UnmappedAbortCalls]
       IN IF sys_abort(fatal) = "terminated"
          THEN [bad EXCEPT !.pc = "aborted"]
          ELSE IF res = "failed"
               THEN [bad EXCEPT !.calls = @ \o UnmappedAbortCalls]
               ELSE bad

\* remap_segments from step k of its order on; st holds the address space,
\* the calls made so far and whether the process is still running
RECURSIVE RemapRun(_, _, _, _, _, _, _, _)
RemapRun(order, k, st, table, tab, cont, out, fatal) ==
  IF k > Len(order) \/ st.pc = "aborted" THEN st
  ELSE LET i == order[k][2]
           seg == table[i]
           \* mmap fails on a closed descriptor (EBADF) and on one that is
           \* not a file (ENODEV)
           res == IF seg.fd \in DOMAIN tab /\ tab[seg.fd] \in DOMAIN cont
                  THEN out[i] ELSE "failed"
           file == IF seg.fd \in DOMAIN tab THEN tab[seg.fd] ELSE NoFile
       IN IF order[k][1] = "munmap"
          THEN RemapRun(order, k + 1,
                 [st EXCEPT !.maps[i] = [st |-> "unmapped", data |-> << "none" >>,
                                         prot |-> {}],
                            !.calls = Append(@, << "munmap", i >>)],
                 table, tab, cont, out, fatal)
          ELSE RemapRun(order, k + 1,
                 RemapOne(st, i, seg, file, cont, res, fatal),
                 table, tab, cont, out, fatal)

\* remap_segments(htlb_seg_table, htlb_num_segs), lines 760-803: the bogus
\* mmap(0, 0, 0, 0, 0, 0) of line 773, then the two loops.  It works on the
\* process's own address space only.
remap_segments(p, out, fatal) ==
  RemapRun(RemapOrder(NumSegs(p)), 1,
           [maps |-> maps[p], calls |-> << << "mmap", 0 >> >>, pc |-> "done"],
           segs[p], fdt[p], content, out, fatal)

RemapSegments(p) ==
  /\ pc[p] = "remap"
  /\ \E out \in [1..NumSegs(p) -> {"ok", "failed", "wrong"}], fatal \in BOOLEAN :
       LET r == remap_segments(p, out, fatal) IN
       /\ maps' = [maps EXCEPT ![p] = r.maps]
       /\ calls' = [calls EXCEPT ![p] = r.calls]
       /\ pc' = [pc EXCEPT ![p] = r.pc]
       /\ IF \E i \in 1..NumSegs(p) : r.maps[i].st \in {"failed", "wrong"}
          THEN Fault("mmap")
          ELSE NoFault
  /\ UNCHANGED << exe, sharing, segs, cur, procLocals, fdt, okSegs, fsVars >>
  /\ UNCHANGED unitVars

\* ------------------------------------------------------------------ crashes
Terminal == {"ret", "done", "aborted", "crashed"}

\* A process may be killed at any point of setup_elflink
Crash(p) ==
  /\ pc[p] \notin Terminal
  /\ Dies(p)
  /\ Fault("crash")
  /\ UNCHANGED << exe, sharing, fsVars >>
  /\ UNCHANGED unitVars

Next ==
  \E p \in Procs :
    \/ SetupStart(p)
    \/ ObtainShared(p)
    \/ ObtainUnlinked(p)
    \/ OpenExclusive(p)
    \/ OpenFinal(p)
    \/ UseShared(p)
    \/ PrepareShared(p)
    \/ RenameShared(p)
    \/ FailShared(p)
    \/ SleepRetry(p)
    \/ RemapSegments(p)
    \/ Crash(p)

Spec == Init /\ [][Next]_vars

TypeOK ==
  /\ pc \in [Procs -> {"start", "obtain", "openx", "opens",
                       "use", "prepare", "rename", "fail", "sleep", "unlinked",
                       "remap"} \cup Terminal]
  /\ \A p \in Procs : cur[p] \in 1..MAX_HTLB_SEGS
  /\ nfaults \in 0..MaxFaults

\* Every process that is running gets to run (the operating system's
\* scheduler); sleep(1) returns.  A crash is never forced.
ProcNext(p) ==
  \/ SetupStart(p)
  \/ ObtainShared(p)
  \/ ObtainUnlinked(p)
  \/ OpenExclusive(p)
  \/ OpenFinal(p)
  \/ UseShared(p)
  \/ PrepareShared(p)
  \/ RenameShared(p)
  \/ FailShared(p)
  \/ SleepRetry(p)
  \/ RemapSegments(p)

FairSpec == Init /\ [][Next]_vars /\ \A p \in Procs : WF_vars(ProcNext(p))

\* ------------------------------------------------- the detailed run: actions
mainVars == << pc, exe, sharing, segs, cur, fdx, fds, errnox, errnos, fdt, maps,
               calls, okSegs, dir, content, renamed, nfaults, fkinds >>

\* The state after construction of one process that parses the image ehdr
UnitInit ==
  /\ pc = [p \in Procs |-> "start"]
  /\ exe = [p \in Procs |-> CHOOSE e \in Exes : e.path[1] = "a"]
  /\ sharing = [p \in Procs |-> 0]
  /\ segs = [p \in Procs |-> << >>]
  /\ cur = [p \in Procs |-> 1]
  /\ fdx = [p \in Procs |-> -1]
  /\ fds = [p \in Procs |-> -1]
  /\ errnox = [p \in Procs |-> "none"]
  /\ errnos = [p \in Procs |-> "none"]
  /\ fdt = [p \in Procs |-> [fd \in 0..2 |-> Tty]]
  /\ maps = [p \in Procs |-> OrigMaps(exe[p])]
  /\ calls = [p \in Procs |-> << >>]
  /\ okSegs = [p \in Procs |-> {}]
  /\ dir = [n \in AllNames |-> NoFile]
  /\ content = [f \in Inodes |-> << "absent" >>]
  /\ renamed = {}
  /\ nfaults = 0
  /\ fkinds = {}
  /\ upc = "env"
  /\ ehdr \in Ehdrs
  /\ environ = NoEnviron
  /\ minimal_copy = 1
  /\ htlb_num_segs = 0
  /\ htlb_seg_table = [n \in 0..(MAX_HTLB_SEGS - 1) |-> ZeroSeg]
  /\ phi = 0
  /\ wrote = {}
  /\ gx = NoCall
  /\ share_path = NoSharePath
  /\ hfile = << >>

\* setup_elflink: check_env() (lines 869-870)
CheckEnv ==
  /\ upc = "env"
  /\ \E env \in Environs :
       /\ environ' = env
       /\ IF check_env_disabled(env)
          THEN upc' = "ret" /\ UNCHANGED minimal_copy
          ELSE upc' = "parse" /\ minimal_copy' = check_env_minimal_copy(env)
  /\ UNCHANGED << ehdr, htlb_num_segs, htlb_seg_table, phi, wrote, gx, share_path,
                  hfile, mainVars >>

\* Variant: the entries recorded so far are kept when there are too many
TooManySegs_KeepsFirst(n) == n

\* "htlb_num_segs = 0; return;" (lines 515-516)
TooManySegs(n) == 0

\* One round of the loop of parse_elf (lines 502-542) on phdr[phi], or its end
ParseElfStep ==
  /\ upc = "parse"
  /\ IF phi >= e_phnum(ehdr)
     THEN /\ upc' = "parsed"
          /\ UNCHANGED << htlb_num_segs, htlb_seg_table, phi, wrote, gx >>
     ELSE LET h == ehdr.phdr[phi + 1]
              n == htlb_num_segs
              seg == [ZeroSeg EXCEPT !.vaddr = h.p_vaddr,
                                     !.filesz = h.p_filesz,
                                     !.memsz = h.p_memsz,
                                     !.prot = ProtOfFlags(h.p_flags),
                                     !.index = phi]
          IN IF h.p_type # "PT_LOAD" \/ "H" \notin h.p_flags
             THEN /\ phi' = phi + 1
                  /\ UNCHANGED << upc, htlb_num_segs, htlb_seg_table, wrote, gx >>
             ELSE IF htlb_num_segs >= MAX_HTLB_SEGS
             THEN /\ htlb_num_segs' = TooManySegs(htlb_num_segs)
                  /\ upc' = "parsed"
                  /\ UNCHANGED << htlb_seg_table, phi, wrote, gx >>
             ELSE \E in \in IF ReadsDynamic(h, ehdr, minimal_copy)
                            THEN ExtracopyInputs ELSE {NoInputs} :
                    /\ htlb_seg_table' =
                         [htlb_seg_table EXCEPT
                            ![n] = get_extracopy(seg, ehdr, minimal_copy, in)]
                    /\ wrote' = wrote \cup {n}
                    /\ gx' = [called |-> TRUE, idx |-> n, in |-> in]
                    /\ htlb_num_segs' = n + 1
                    /\ phi' = phi + 1
                    /\ UNCHANGED upc
  /\ UNCHANGED << ehdr, environ, minimal_copy, share_path, hfile, mainVars >>

\* setup_elflink after parse_elf (lines 874-884): nothing to do, or on to
\* the share directory when sharing, or to the files
AfterParse ==
  /\ upc = "parsed"
  /\ upc' = IF htlb_num_segs = 0 THEN "ret"
            ELSE IF check_env_sharing(environ.HUGETLB_SHARE) # 0 THEN "share"
            ELSE "prepare"
  /\ gx' = NoCall
  /\ UNCHANGED << ehdr, environ, minimal_copy, htlb_num_segs, htlb_seg_table, phi,
                  wrote, share_path, hfile, mainVars >>

\* setup_elflink: find_or_create_share_path() (lines 880-884)
SharePath ==
  /\ upc = "share"
  /\ \E w \in ShareWorlds :
       /\ share_path' = find_or_create_share_path(w)
       /\ upc' = IF find_or_create_share_path(w).ret # 0 THEN "ret" ELSE "prepare"
  /\ UNCHANGED << ehdr, environ, minimal_copy, htlb_num_segs, htlb_seg_table, phi,
                  wrote, gx, hfile, mainVars >>

\* prepare_segment on a fresh file for each table entry
PrepareSegments ==
  /\ upc = "prepare"
  /\ hfile' = [k \in 0..(htlb_num_segs - 1) |-> prepare_segment_file(htlb_seg_table[k])]
  /\ upc' = "end"
  /\ UNCHANGED << ehdr, environ, minimal_copy, htlb_num_segs, htlb_seg_table, phi,
                  wrote, gx, share_path, mainVars >>

UnitNext ==
  \/ CheckEnv
  \/ ParseElfStep
  \/ AfterParse
  \/ SharePath
  \/ PrepareSegments

UnitSpec == UnitInit /\ [][UnitNext]_vars

\* ---------------------------------------------------------------- properties
AllOrig(p) == \A k \in DOMAIN maps[p] : maps[p][k].st = "orig"

\* The final name of the shared file that a temporary file was created for
NameOfFile(f) == get_shared_file_name(exe[f[1]], parse_elf(exe[f[1]])[f[2]].index)

\* Process p is inside the open/retry loop of find_or_prepare_shared_file
\* for the shared file n
InLoop(p, n) ==
  /\ pc[p] \in {"openx", "opens", "sleep"}
  /\ FinalPath(p) = n

\* Process p is about to call find_or_prepare_shared_file for table entry k
Entering(p, k) ==
  /\ pc[p] = "obtain"
  /\ cur[p] = k
  /\ Shareable(sharing[p], segs[p][k])

\* find_or_prepare_shared_file has returned 0 to p for table entry k: the
\* entry's fd is open on a fully populated file of the share directory
SharedOK(p, k) ==
  /\ k \in okSegs[p]
  /\ segs[p][k].fd \in DOMAIN fdt[p]
  /\ fdt[p][segs[p][k].fd][3] = "tmp"
  /\ content[fdt[p][segs[p][k].fd]][1] = "full"

\* A preparer died between its exclusive create and its rename: its
\* temporary file is there, the final file is not
Stale(n) ==
  /\ dir[n] = NoFile
  /\ dir[TmpPath(n)] # NoFile
  /\ pc[dir[TmpPath(n)][1]] = "crashed"

\* C1: remap_segments (any munmap or fixed mmap of a segment) runs only after
\* obtain_prepared_file has returned success for every selected segment; a
\* process in which it failed for a segment keeps all its original mappings.
C1_RemapOnlyAfterAllPrepared ==
  \A p \in Procs :
    /\ (calls[p] # << >> \/ ~AllOrig(p)) =>
          (NumSegs(p) > 0 /\ okSegs[p] = 1..NumSegs(p))
    /\ pc[p] = "ret" => (calls[p] = << >> /\ AllOrig(p))

\* C1 witness: a process prepared one segment, failed on the next, and has
\* returned with every mapping untouched
C1_Witness ==
  \E p \in Procs :
    /\ pc[p] = "ret"
    /\ okSegs[p] # {}
    /\ okSegs[p] # 1..NumSegs(p)
    /\ AllOrig(p)

\* C2: of the processes racing on one shared file, no two prepare the
\* temporary file and rename it to the final name.
C2_SinglePreparer ==
  \A n \in FinalNames : Cardinality({ f \in renamed : NameOfFile(f) = n }) <= 1

\* C3: a file visible under a final name is fully populated, and so is every
\* file that a read-only open of the final name has returned, also after
\* crashes and failures of participants.
C3_FinalIsPopulated ==
  /\ \A n \in FinalNames : dir[n] # NoFile => content[dir[n]][1] = "full"
  /\ \A p \in Procs : fds[p] >= 0 => content[fdt[p][fds[p]]][1] = "full"

\* C3 witness: one participant has crashed and another has just opened the
\* final file
C3_Witness ==
  \E p, q \in Procs :
    /\ pc[q] = "crashed"
    /\ pc[p] = "use"
    /\ fds[p] >= 0

\* The table entries that some executable shares (read-only huge-page segments)
SharedEntries ==
  { k \in 1..MAX_HTLB_SEGS :
      \E e \in Exes : k <= Len(parse_elf(e)) /\ Shareable(1, parse_elf(e)[k]) }

C5_FailedPreparerUnlinks ==
  \A p \in Procs :
    pc[p] = "unlinked" =>
      dir[TmpPath(FinalPath(p))] # << p, cur[p], "tmp" >>

\* C6: find_or_prepare_shared_file sleeps and retries only when the
\* exclusive create failed with EEXIST and the final open with ENOENT.
C6_RetryOnlyOnRace ==
  \A p \in Procs :
    pc[p] = "sleep" => (errnox[p] = "EEXIST" /\ errnos[p] = "ENOENT")

\* C7 (as claimed): once a preparer has crashed between create and rename,
\* every other process that enters find_or_prepare_shared_file for that
\* file never returns from it.
C7_EntrantsNeverReturn ==
  [][\A p \in Procs : \A k \in 1..MAX_HTLB_SEGS :
       (Entering(p, k) /\ Stale(FinalPath(p))) =>
          pc'[p] \in {"obtain", "openx", "crashed"}]_vars

\* C7 (amended): once a preparer has crashed between create and rename,
\* every other process that has reached the open/retry loop for that file
\* (its get_shared_file_name succeeded) stays in the loop for ever unless it
\* is killed: it never returns, never falls back to an unlinked file, never
\* reaches remap; and the temporary file stays.
C7_LoopsForever ==
  [][\A p \in Procs : \A n \in FinalNames :
       (InLoop(p, n) /\ Stale(n)) =>
          /\ pc'[p] \in {"openx", "opens", "sleep", "crashed"}
          /\ Stale(n)']_vars

\* C7 witness: a preparer has crashed holding the temporary file and another
\* process is sleeping before its next try
C7_Witness ==
  \E p \in Procs : \E n \in FinalNames :
    /\ Stale(n)
    /\ InLoop(p, n)
    /\ pc[p] = "sleep"

\* The place of the first call of kind c on entry i in a call sequence (0: none)
FirstCall(cs, c, i) ==
  IF \E a \in 1..Len(cs) : cs[a] = << c, i >>
  THEN CHOOSE a \in 1..Len(cs) :
         /\ cs[a] = << c, i >>
         /\ \A b \in 1..(a - 1) : cs[b] # << c, i >>
  ELSE 0

\* C8: when the huge-page mmap of a segment fails or lands at another
\* address, the process is terminated there: no later segment is remapped
\* and remap_segments does not return.
C8_MapFailureTerminates ==
  \A p \in Procs : \A i \in DOMAIN maps[p] :
    maps[p][i].st \in {"failed", "wrong"} =>
      /\ pc[p] = "aborted"
      /\ \A j \in DOMAIN maps[p] : j > i => FirstCall(calls[p], "mmap", j) = 0

\* C9: remap_segments unmaps every selected segment before it remaps any:
\* each munmap precedes each huge-page mmap, and the segments are remapped
\* one at a time in table order.
C9_UnmapAllThenRemap ==
  \A p \in Procs :
    LET cs == calls[p]
        remaps == SelectSeq(cs, LAMBDA c : c[1] = "mmap" /\ c[2] >= 1)
    IN /\ \A a, b \in 1..Len(cs) :
            (cs[a][1] = "munmap" /\ cs[b][1] = "mmap" /\ cs[b][2] >= 1) => a < b
       /\ remaps # << >> =>
            \A i \in 1..NumSegs(p) : FirstCall(cs, "munmap", i) # 0
       /\ \A a \in 1..Len(remaps) : remaps[a][2] = a

\* C9 witness: a process has unmapped and remapped two segments
C9_Witness ==
  \E p \in Procs :
    /\ pc[p] = "done"
    /\ NumSegs(p) = 2
    /\ \A i \in 1..2 : maps[p][i].st = "huge"

\* C10: after a successful remap every promoted segment holds the bytes the
\* process had there before, with the protection of its load flags, also
\* when its file came from the shared cache.
C10_RemapPreservesMemory ==
  \A p \in Procs :
    (pc[p] = "done" /\ \A i \in DOMAIN maps[p] : maps[p][i].st = "huge") =>
      \A i \in DOMAIN maps[p] :
        /\ maps[p][i].data = Image(exe[p], segs[p][i].index)
        /\ maps[p][i].prot = ProtOfFlags(Phdrs(exe[p])[segs[p][i].index + 1].p_flags)

\* ------------------------------------------- properties of the detailed run
\* The PT_LOAD headers of an image that are flagged for huge pages
FlaggedCount(e) ==
  Cardinality({ k \in 1..Len(e.phdr) :
                  e.phdr[k].p_type = "PT_LOAD" /\ "H" \in e.phdr[k].p_flags })

\* C11: with more than MAX_HTLB_SEGS flagged PT_LOAD headers parse_elf leaves
\* htlb_num_segs at 0, nothing is prepared and the run goes on to return; in
\* every state htlb_num_segs is within 0..MAX_HTLB_SEGS and only entries of
\* the table are written; the table agrees with parse_elf of the protocol model.
C11_TooManySegsPromoteNothing ==
  /\ htlb_num_segs \in 0..MAX_HTLB_SEGS
  /\ wrote \subseteq 0..(MAX_HTLB_SEGS - 1)
  /\ (upc \notin {"idle", "env", "parse"} /\ FlaggedCount(ehdr) > MAX_HTLB_SEGS) =>
       /\ htlb_num_segs = 0
       /\ upc \in {"parsed", "ret"}
       /\ hfile = << >>
       /\ share_path = NoSharePath
  /\ upc = "parsed" =>
       LET t == ParseFrom(ehdr.phdr, 1, << >>) IN
       /\ Len(t) = htlb_num_segs
       /\ \A k \in 1..Len(t) :
            /\ t[k].index = htlb_seg_table[k - 1].index
            /\ t[k].vaddr = htlb_seg_table[k - 1].vaddr
            /\ t[k].prot = htlb_seg_table[k - 1].prot

\* C11 witness: an image with too many flagged headers was parsed, the first
\* entries had been recorded, and the run has returned
C11_Witness ==
  /\ upc = "ret"
  /\ FlaggedCount(ehdr) > MAX_HTLB_SEGS
  /\ wrote = 0..(MAX_HTLB_SEGS - 1)
  /\ htlb_num_segs = 0

\* C12: a copy window that is set lies inside the zero-fill tail:
\* vaddr+filesz <= extra_vaddr < vaddr+memsz and
\* extra_vaddr+extrasz <= vaddr+memsz.
C12_WindowInsideTail ==
  \A n \in wrote :
    LET s == htlb_seg_table[n] IN
    s.extra_vaddr # 0 =>
      /\ s.vaddr + s.filesz <= s.extra_vaddr
      /\ s.extra_vaddr < s.vaddr + s.memsz
      /\ s.extra_vaddr + s.extrasz <= s.vaddr + s.memsz

\* The entry the last get_extracopy worked on, and what the call had to go on
LastSeg == htlb_seg_table[gx.idx]
TailStart == LastSeg.vaddr + LastSeg.filesz
TailEnd == LastSeg.vaddr + LastSeg.memsz
HasTail == LastSeg.filesz # LastSeg.memsz

\* the image has a PT_DYNAMIC header
HasDynamic(e) == \E k \in 1..Len(e.phdr) : e.phdr[k].p_type = "PT_DYNAMIC"
\* the dynamic section names the table
HasTag(dyntab, tag) == \E k \in 1..Len(dyntab) : dyntab[k].d_tag = tag
TagPtr(dyntab, tag) == dyntab[CHOOSE k \in 1..Len(dyntab) : dyntab[k].d_tag = tag].d_ptr

\* get_extracopy went through its symbol loop
ScannedSymbols ==
  /\ gx.called
  /\ HasTail
  /\ minimal_copy # 0
  /\ find_dynamic(ehdr).ret = 0
  /\ find_tables(gx.in.dyntab).ret = 0
  /\ find_numsyms(find_tables(gx.in.dyntab).symtab, find_tables(gx.in.dyntab).strtab) >= 0

\* The symbols the claim counts: value within [vaddr+filesz, vaddr+memsz),
\* global or weak, an object, of nonzero size
TailSymbols ==
  { k \in 1..Len(gx.in.syms) :
      /\ gx.in.syms[k].st_value >= TailStart
      /\ gx.in.syms[k].st_value < TailEnd
      /\ gx.in.syms[k].bind \in {"STB_GLOBAL", "STB_WEAK"}
      /\ gx.in.syms[k].type = "STT_OBJECT"
      /\ gx.in.syms[k].st_size # 0 }

SymStart(k) == gx.in.syms[k].st_value
SymEnd(k) == gx.in.syms[k].st_value + gx.in.syms[k].st_size

\* the end of the window that the symbol loop arrives at
LoopEnd ==
  ScanSymbols(gx.in.syms, 0, Len(gx.in.syms), TailStart, TailEnd,
              [start |-> TailEnd, end |-> TailStart, found_sym |-> 0]).end
LoopFound ==
  ScanSymbols(gx.in.syms, 0, Len(gx.in.syms), TailStart, TailEnd,
              [start |-> TailEnd, end |-> TailStart, found_sym |-> 0]).found_sym

\* C13: with the sentinel not beyond the symbol-derived end, a window that is
\* set is exactly [min start, max end) over the symbols within the tail that
\* are global or weak objects of nonzero size.
C13_WindowIsUnionOfTailSymbols ==
  (ScannedSymbols /\ gx.in.sentinel <= LoopEnd /\ LastSeg.extra_vaddr # 0) =>
     /\ TailSymbols # {}
     /\ \A k \in TailSymbols : LastSeg.extra_vaddr <= SymStart(k)
     /\ \E k \in TailSymbols : LastSeg.extra_vaddr = SymStart(k)
     /\ \A k \in TailSymbols : SymEnd(k) <= LastSeg.extra_vaddr + LastSeg.extrasz
     /\ \E k \in TailSymbols : SymEnd(k) = LastSeg.extra_vaddr + LastSeg.extrasz

\* C14: with the sentinel beyond the symbol-derived end the window ends at
\* the sentinel, and when no symbol was kept the window is set and spans
\* from the beginning of the tail to the sentinel.
C14_SentinelEndsWindow ==
  (ScannedSymbols /\ gx.in.sentinel > LoopEnd) =>
     /\ LastSeg.extra_vaddr # 0
     /\ LastSeg.extra_vaddr + LastSeg.extrasz = gx.in.sentinel
     /\ LoopFound = 0 => LastSeg.extra_vaddr = TailStart

\* C15: with minimal copy enabled and a tail, when there is no PT_DYNAMIC
\* header, no symbol table, no string table, or the count derived from the
\* distance of the tables is not positive, the window is the whole tail.
C15_NoMetadataCopiesWholeTail ==
  (/\ gx.called
   /\ HasTail
   /\ minimal_copy # 0
   /\ \/ ~HasDynamic(ehdr)
      \/ /\ gx.in.dyntab # << >>
         /\ \/ ~HasTag(gx.in.dyntab, "DT_SYMTAB")
            \/ ~HasTag(gx.in.dyntab, "DT_STRTAB")
            \/ (TagPtr(gx.in.dyntab, "DT_STRTAB") - TagPtr(gx.in.dyntab, "DT_SYMTAB"))
                  \div SizeofSym <= 0)
  => /\ LastSeg.extra_vaddr = TailStart
     /\ LastSeg.extrasz = TailEnd - TailStart

\* the spellings of "no" that strcasecmp accepts
NoSpellings == { << a, b >> : a \in {"n", "N"}, b \in {"o", "O"} }

\* C16: with HUGETLB_MINIMAL_COPY=no every segment with memsz > filesz gets
\* the whole tail as its window, whatever the symbols and the sentinel; a
\* segment with filesz = memsz has no window in either mode.
C16_NoMinimalCopyWholeTail ==
  \A n \in wrote :
    LET s == htlb_seg_table[n] IN
    /\ s.filesz = s.memsz => (s.extra_vaddr = 0 /\ s.extrasz = 0)
    /\ (/\ environ.HUGETLB_MINIMAL_COPY.set
        /\ environ.HUGETLB_MINIMAL_COPY.val \in NoSpellings
        /\ s.memsz > s.filesz)
       => (s.extra_vaddr = s.vaddr + s.filesz /\ s.extrasz = s.memsz - s.filesz)

\* C16 witness: minimal copy was disabled with a mixed-case "No" and an entry
\* with a tail and one without have been recorded from an image with
\* dynamic symbols
C16_Witness ==
  /\ environ.HUGETLB_MINIMAL_COPY = EnvVal(<< "N", "o" >>)
  /\ HasDynamic(ehdr)
  /\ \E n \in wrote : htlb_seg_table[n].memsz > htlb_seg_table[n].filesz
  /\ \E n \in wrote : htlb_seg_table[n].memsz = htlb_seg_table[n].filesz

\* x rounded up to the huge page size
IsAlignedUp(size, x) ==
  /\ size % gethugepagesize = 0
  /\ size >= x
  /\ size - gethugepagesize < x

\* C17: after prepare_segment succeeded on a fresh file, over the populated
\* size the bytes [0, filesz) are the segment's, the bytes of the copy window
\* at offset extra_vaddr - vaddr are the window's, and all others are zero.
C17_PreparedFileMatchesSegment ==
  upc = "end" =>
    \A k \in DOMAIN hfile :
      LET s == htlb_seg_table[k]
          f == hfile[k].bytes
          woff == s.extra_vaddr - s.vaddr
      IN hfile[k].ret = 0 =>
           /\ \E size \in 1..64 :
                /\ DOMAIN f = 0..(size - 1)
                /\ IsAlignedUp(size, IF s.extra_vaddr # 0
                                     THEN s.extra_vaddr + s.extrasz - s.vaddr
                                     ELSE s.filesz)
           /\ \A o \in DOMAIN f :
                f[o] = IF o < s.filesz THEN Mem(s.vaddr + o)
                       ELSE IF s.extra_vaddr # 0 /\ o >= woff /\ o < woff + s.extrasz
                            THEN Mem(s.extra_vaddr + (o - woff))
                       ELSE 0

\* C17 witness: a file was prepared for a segment whose copy window starts
\* behind the beginning of the tail
C17_Witness ==
  /\ upc = "end"
  /\ \E k \in DOMAIN hfile :
       /\ hfile[k].ret = 0
       /\ htlb_seg_table[k].extra_vaddr > htlb_seg_table[k].vaddr + htlb_seg_table[k].filesz
       /\ htlb_seg_table[k].extrasz > 0

\* C18: when find_or_create_share_path has returned success the directory in
\* share_path is on hugetlbfs, owned by the current user and not group- or
\* other-writable, for the default directory and for HUGETLB_SHARE_PATH.
C18_SharePathIsSafe ==
  (share_path.from # "unset" /\ share_path.ret = 0) =>
     /\ share_path.dir.kind = "dir"
     /\ share_path.dir.huge
     /\ share_path.dir.st_uid = Me
     /\ ~share_path.dir.gow

\* the table entry k that file f was created for, in its creator's image
EntryOfFile(f) == parse_elf(exe[f[1]])[f[2]]

\* C19: the shared-file protocol runs only with sharing = 1 and only for a
\* segment without PROT_WRITE; for a writable segment no file is created,
\* opened or renamed in the share directory, and when obtain_prepared_file
\* has succeeded for it its fd is on an unlinked file of the process's own.
C19_OnlyReadOnlyShared ==
  /\ \A p \in Procs :
       pc[p] \in {"openx", "opens", "use", "prepare", "rename", "fail", "sleep"} =>
          /\ sharing[p] = 1
          /\ "PROT_WRITE" \notin segs[p][cur[p]].prot
  /\ \A f \in Inodes :
       (f[3] = "tmp" /\ content[f] # << "absent" >>) =>
          /\ f[2] <= Len(parse_elf(exe[f[1]]))
          /\ "PROT_WRITE" \notin EntryOfFile(f).prot
  /\ \A n \in AllNames : dir[n] # NoFile => dir[n][3] = "tmp"
  /\ \A p \in Procs : \A k \in okSegs[p] :
       "PROT_WRITE" \in segs[p][k].prot =>
          /\ segs[p][k].fd \in DOMAIN fdt[p]
          /\ fdt[p][segs[p][k].fd] = << p, k, "unl" >>
          /\ \A n \in AllNames : dir[n] # << p, k, "unl" >>

\* C19 witness: a process with sharing on has obtained its read-only entry
\* from the share directory and its writable entry from an unlinked file
C19_Witness ==
  \E p \in Procs : \E k, j \in okSegs[p] :
    /\ sharing[p] = 1
    /\ SharedOK(p, j)
    /\ "PROT_WRITE" \in segs[p][k].prot
    /\ fdt[p][segs[p][k].fd] = << p, k, "unl" >>

\* C20: once find_or_prepare_shared_file has failed for an entry, the step
\* that ends obtain_prepared_file either succeeds, with the entry's fd open on
\* a fresh unlinked file of the process that holds the segment's bytes and
\* has no name in the share directory, or fails because the unlinked file
\* could not be obtained or prepared.
C20_FallbackPreparesPrivateFile ==
  [][\A p \in Procs :
       (pc[p] = "unlinked" /\ pc'[p] \notin {"unlinked", "crashed"}) =>
          LET k == cur[p]
              file == << p, k, "unl" >>
          IN
          \/ /\ pc'[p] \in {"obtain", "remap"}
             /\ k \in okSegs'[p]
             /\ segs'[p][k].fd \in DOMAIN fdt'[p]
             /\ fdt'[p][segs'[p][k].fd] = file
             /\ content'[file] = LiveData(p, k)
             /\ \A n \in AllNames : dir'[n] # file
          \/ /\ pc'[p] = "ret"
             /\ k \notin okSegs'[p]
             /\ fkinds' \ fkinds \subseteq {"unlinkedfd", "prepare"}
             /\ nfaults' = nfaults + 1
    ]_vars

\* C20 witness: a shareable entry whose shared-file attempt failed has been
\* obtained from an unlinked file
C20_Witness ==
  \E p \in Procs : \E k \in okSegs[p] :
    /\ Shareable(sharing[p], segs[p][k])
    /\ segs[p][k].fd \in DOMAIN fdt[p]
    /\ fdt[p][segs[p][k].fd] = << p, k, "unl" >>
    /\ content[<< p, k, "unl" >>] = maps[p][k].data
    /\ fkinds \cap {"names", "openx", "opens", "prepare", "rename"} # {}

\* the files process p has created so far
FilesOf(p) == { f \in Inodes : f[1] = p /\ content[f] # << "absent" >> }

\* C21: when sharing is on and find_or_create_share_path fails, setup_elflink
\* returns: the process has prepared no file, shared or unlinked, has made no
\* munmap or mmap call, keeps its original mappings and its descriptors, and
\* runs on; a process that has returned from setup_elflink does nothing more.
C21_SharePathFailureAbandons ==
  [][\A p \in Procs :
       /\ (/\ pc[p] = "start"
           /\ pc'[p] \notin {"start", "crashed"}
           /\ nfaults' = nfaults + 1)
          => /\ sharing'[p] = 1
             /\ pc'[p] = "ret"
             /\ okSegs'[p] = {}
             /\ calls'[p] = << >>
             /\ maps'[p] = OrigMaps(exe[p])
             /\ fdt'[p] = fdt[p]
             /\ content' = content
             /\ dir' = dir
       /\ pc[p] = "ret"
          => /\ pc'[p] = "ret"
             /\ okSegs'[p] = okSegs[p]
             /\ calls'[p] = calls[p]
             /\ maps'[p] = maps[p]
             /\ fdt'[p] = fdt[p]
             /\ \A f \in Inodes : f[1] = p => content'[f] = content[f]
    ]_vars

\* C21 witness: the only failure so far is that of the share directory, and
\* a process with sharing on and segments to promote has returned with its
\* original mappings and no file
C21_Witness ==
  \E p \in Procs :
    /\ fkinds = {"sharepath"}
    /\ pc[p] = "ret"
    /\ sharing[p] = 1
    /\ NumSegs(p) > 0
    /\ okSegs[p] = {}
    /\ AllOrig(p)
    /\ FilesOf(p) = {}

\* the place of the first munmap in a call sequence (0: none)
FirstMunmap(cs) ==
  IF \E a \in 1..Len(cs) : cs[a][1] = "munmap"
  THEN CHOOSE a \in 1..Len(cs) :
         /\ cs[a][1] = "munmap"
         /\ \A b \in 1..(a - 1) : cs[b][1] # "munmap"
  ELSE 0

\* what may be called while segments are unmapped: munmap, mmap, and the raw
\* system calls of the abort path
UnmappedSafe == {"munmap", "mmap", "write", "getpid", "kill"}

\* C22: remap_segments calls mmap once, the no-effect call, before its first
\* munmap, and from the first munmap on it calls nothing but munmap, mmap
\* and the raw write, getpid and kill of the abort path.
C22_OnlyRawCallsWhileUnmapped ==
  \A p \in Procs :
    LET cs == calls[p] IN
    cs # << >> =>
      /\ cs[1] = << "mmap", 0 >>
      /\ FirstMunmap(cs) = 2
      /\ \A a \in 2..Len(cs) : cs[a] # << "mmap", 0 >>
      /\ \A a \in FirstMunmap(cs)..Len(cs) : cs[a][1] \in UnmappedSafe

\* get_extracopy has called find_dynamic on the image
CalledFindDynamic ==
  /\ gx.called
  /\ HasTail
  /\ minimal_copy # 0

\* C23: find_dynamic reads only phdr[0..phnum-1]; it returns 0, with the
\* p_vaddr of a PT_DYNAMIC header of the table, exactly when the table has
\* one, and -1 otherwise.
C23_FindDynamicWithinTable ==
  CalledFindDynamic =>
    LET r == find_dynamic(ehdr) IN
    /\ FindDynamicFrom(ehdr, 1) < e_phnum(ehdr)
    /\ r.ret = 0 <=> HasDynamic(ehdr)
    /\ r.ret # 0 => r.ret = -1
    /\ r.ret = 0 =>
         \E k \in 1..Len(ehdr.phdr) :
           /\ ehdr.phdr[k].p_type = "PT_DYNAMIC"
           /\ r.dyntab = ehdr.phdr[k].p_vaddr

====
